---- MODULE Spec2Model ----
\* The website handlers of pinnwand (src/pinnwand/handler/website.py) as a
\* state machine over the paste store. One action per request handler; each
\* action is the whole handler, from argument parsing to the response.
EXTENDS Integers, Sequences, FiniteSets, TLC

\* ---------------------------------------------------------------- bounds
MaxSlug == 3       \* size of the identifier universe
MaxTime == 2       \* the clock stops ticking here
MaxFiles == 2      \* longest argument list of a CreateAction request
MaxPastes == 2     \* creations are not attempted on a store this full

\* ------------------------------------------------------- configuration
\* configuration.paste_size: the limit on the summed highlighted size.
paste_size == 4

\* configuration.expiries: expiry class -> lifetime, in clock ticks.
expiries == ("1day" :> 1) @@ ("1week" :> 2)

\* utility.list_languages(): the known lexers.
list_languages == {"text", "python"}

\* ------------------------------------------------------- input domains
Slugs == 1..MaxSlug
NoSlug == 0

\* Removal tokens are identifiers of their own, none of them a slug.
Tokens == (MaxSlug + 1)..(2 * MaxSlug)

\* Texts are sequences of characters; " " is whitespace.
NoText == << >>
RawInputs == {<<" ">>, <<"a">>, <<" ", "a", " ">>}
LexerInputs == {"text", "python", "bogus"}
ExpiryInputs == {"1day", "1week", "bogus"}
FilenameInputs == {<< >>, <<"x", "/">>}

\* The file names of the download specification: none, and one with
\* surrounding whitespace and a character that is unsafe in a path.
DownloadNames == {<< >>, <<" ", "x", "/">>}
DownloadRaws == {<<"a">>, <<" ", "a", " ">>}

\* The requests of the lifecycle specification are all well-formed.
LiveRaws == {<<"a">>}
LiveLexers == {"text"}
LiveExpiries == {"1day"}
LiveFilenames == {<< >>}

SeqsUpTo(S, n) == UNION {[1..k -> S] : k \in 0..n}

\* The areas an endpoint declares to the rate limiter.
Areas == {"read", "create", "delete"}

\* Two requests are handled at a time.
Workers == {"w1", "w2"}

\* ------------------------------------------------------------ helpers
\* str.strip(): drop leading and trailing whitespace.
RECURSIVE LStrip(_)
LStrip(s) == IF s # << >> /\ Head(s) = " " THEN LStrip(Tail(s)) ELSE s

RECURSIVE RStrip(_)
RStrip(s) ==
    IF s # << >> /\ s[Len(s)] = " " THEN RStrip(SubSeq(s, 1, Len(s) - 1)) ELSE s

Strip(s) == RStrip(LStrip(s))

\* RequestHandler.get_body_argument(name, strip=...): the posted value, with
\* its surrounding whitespace dropped unless strip is False.
get_body_argument(value, strip) == IF strip THEN Strip(value) ELSE value

\* File.fmt: the highlighted form of raw. The "text" lexer leaves the content
\* as it is; every other lexer wraps each character in markup.
fmt(raw, lexer) ==
    IF lexer = "text"
    THEN raw
    ELSE [i \in 1..(2 * Len(raw)) |-> IF i % 2 = 1 THEN raw[(i + 1) \div 2] ELSE "#"]

RECURSIVE SumSeq(_)
SumSeq(s) == IF s = << >> THEN 0 ELSE Head(s) + SumSeq(Tail(s))

\* utility.filename_clean: keep only the characters safe in a file name.
SafeChars == {"a", "x", "y", "-", "_", "."}
filename_clean(name) == SelectSeq(name, LAMBDA c : c \in SafeChars)

\* binascii.hexlify(raw.encode("utf8")): two hex digits per byte.
HexOf(c) ==
    CASE c = " " -> <<"2", "0">>
      [] c = "a" -> <<"6", "1">>
      [] c = "x" -> <<"7", "8">>
      [] OTHER -> <<"2", "f">>

RECURSIVE hexlify(_)
hexlify(s) == IF s = << >> THEN << >> ELSE HexOf(Head(s)) \o hexlify(Tail(s))

\* -------------------------------------------------------------- state
VARIABLES
    pastes,      \* the Paste table: records [slug, exp_date, removal, src]
    files,       \* the File table: records [slug, paste, pos, raw, lexer, filename]
    now,         \* datetime.now(timezone.utc)
    last,        \* the response to the latest request
    req,         \* the creation request under test (SpecCreate), else NoRequest
    submitted,   \* history: file slug of a live file -> the content submitted for it
    gone,        \* history (SpecExpiry): slugs Show answered 404 for, on an
                 \* expired paste
    reassigned,  \* history (SpecExpiry): slugs of gone since given to a new paste
    denied,      \* the areas in which the rate limiter denies requests (SpecLimit)
    inflight     \* worker -> the request it has begun and not yet committed
                 \* (SpecRace, SpecSweep)

vars == <<pastes, files, now, last, req, submitted, gone, reassigned, denied,
          inflight>>
store == <<pastes, files>>

\* ------------------------------------------------------- the store
\* utility.slug_create / SlugContext check a candidate against the slugs of
\* both tables.
UsedSlugs == {p.slug : p \in pastes} \cup {f.slug : f \in files}
FreshSlugs == Slugs \ UsedSlugs

\* A mutant of PasteBySlug: the query has lost its filter.
PasteBySlug_unfiltered(slug) == pastes

\* session.query(models.Paste).filter(models.Paste.slug == slug)
PasteBySlug(slug) == {p \in pastes : p.slug = slug}

\* session.query(models.File).filter(models.File.slug == file_id)
FileBySlug(file_id) == {f \in files : f.slug = file_id}

\* A mutant of PasteByRemoval: a slug is accepted in place of the token.
PasteByRemoval_or_slug(removal) ==
    {p \in pastes : p.removal = removal \/ p.slug = removal}

\* session.query(models.Paste).filter(models.Paste.removal == removal)
PasteByRemoval(removal) == {p \in pastes : p.removal = removal}

\* file.paste: the owning paste of a file.
PasteOf(f) == CHOOSE p \in pastes : p.slug = f.paste

\* paste.files: the files of a paste, in their order of insertion.
FilesOf(p) ==
    LET own == {f \in files : f.paste = p.slug}
    IN  [i \in 1..Cardinality(own) |-> CHOOSE f \in own : f.pos = i]

\* The removal token generated for a new paste: a secret that is no slug and
\* that no other paste of the store carries.
removal_token(slug) == MaxSlug + slug

\* models.Paste(slug, expiry, src): exp_date and the removal token are fixed
\* at construction.
Paste(slug, expiry, src) ==
    [slug |-> slug, exp_date |-> now + expiry, removal |-> removal_token(slug),
     src |-> src]

\* models.File(slug, raw, lexer, filename), not yet attached to a paste.
File(slug, raw, lexer, filename) ==
    [slug |-> slug, raw |-> raw, lexer |-> lexer, filename |-> filename]

\* session.add(paste); session.commit(): the paste and its files, each file
\* bound to the paste at its position in paste.files.
Attach(paste, fs) ==
    {[slug |-> fs[i].slug, paste |-> paste.slug, pos |-> i, raw |-> fs[i].raw,
      lexer |-> fs[i].lexer, filename |-> fs[i].filename] : i \in 1..Len(fs)}

\* session.delete(paste); session.commit(): the delete cascades to the files.
FilesAfterDelete(p) == {f \in files : f.paste # p.slug}

\* Mutants of IsExpired: the comparison turned round, an expiry that already
\* holds at exp_date itself, and a comparison that is not made.
IsExpired_reversed(p) == p.exp_date > now
IsExpired_early(p) == p.exp_date <= now
IsExpired_never(p) == FALSE

\* paste.exp_date < datetime.now(timezone.utc)
IsExpired(p) == p.exp_date < now

\* ------------------------------------------------------- responses
NoResponse ==
    [op |-> "none", arg |-> NoSlug, status |-> 0, err |-> "none", redirect |-> "",
     slug |-> NoSlug, lexer |-> "", cookie |-> NoSlug, body |-> NoText,
     filename |-> NoText, entries |-> << >>, can_delete |-> FALSE, log |-> ""]

\* Base.write_error: the status a raised error ends up as.
write_error(err) ==
    CASE err = "HTTPError(404)" -> 404
      [] err = "HTTPError(400)" -> 400
      [] err = "ValidationError" -> 400
      [] err = "RatelimitError" -> 429
      [] err = "SpamError" -> 451
      [] OTHER -> 500

Raise(op, arg, err, log) ==
    [NoResponse EXCEPT !.op = op, !.arg = arg, !.err = err,
                       !.status = write_error(err), !.log = log]

\* A worker that handles no request, and one that has begun `op` and holds
\* the paste it is about to write or to delete.
Idle == [op |-> "none", arg |-> NoSlug, paste |-> NoSlug, files |-> << >>,
         raws |-> << >>]

Job(op, arg, paste, fs, raws) ==
    [op |-> op, arg |-> arg, paste |-> paste, files |-> fs, raws |-> raws]

Creating == {w \in Workers : inflight[w].op \in {"Create", "CreateAction"}}

\* ------------------------------------------------ history bookkeeping
\* A mutant of Persist: the paste row is written, its files are not.
Persist_without_files(paste, fs, raws) ==
    /\ pastes' = pastes \cup {paste}
    /\ UNCHANGED <<files, submitted, now>>

Persist(paste, fs, raws) ==
    /\ pastes' = pastes \cup {paste}
    /\ files' = files \cup Attach(paste, fs)
    /\ submitted' = [s \in DOMAIN submitted \cup {fs[i].slug : i \in 1..Len(fs)} |->
                        IF \E i \in 1..Len(fs) : fs[i].slug = s
                        THEN raws[CHOOSE i \in 1..Len(fs) : fs[i].slug = s]
                        ELSE submitted[s]]
    /\ UNCHANGED now

\* A mutant of Drop: the delete is not limited to the paste at hand.
Drop_everything(p) ==
    /\ pastes' = {}
    /\ files' = {}
    /\ submitted' = << >>
    /\ UNCHANGED now

\* A mutant of Drop: the paste row goes, its files stay.
Drop_paste_only(p) ==
    /\ pastes' = pastes \ {p}
    /\ UNCHANGED <<files, submitted, now>>

Drop(p) ==
    /\ pastes' = pastes \ {p}
    /\ files' = FilesAfterDelete(p)
    /\ submitted' = [s \in {f.slug : f \in FilesAfterDelete(p)} |-> submitted[s]]
    /\ UNCHANGED now

\* A mutant of Keep: a request that writes nothing still renews the pastes.
Keep_renewing ==
    /\ pastes' = {[p EXCEPT !.exp_date = now + 1] : p \in pastes}
    /\ UNCHANGED <<files, now, submitted>>

Keep == UNCHANGED <<pastes, files, now, submitted>>

\* ------------------------------------------------------ Create.post
\* A mutant of Create_check: the expiry is checked before the code.
Create_check_expiry_first(lexer, raw, expiry) ==
    IF lexer \notin list_languages THEN "invalid lexer"
    ELSE IF expiry \notin DOMAIN expiries THEN "invalid expiry"
    ELSE IF raw = NoText \/ Strip(raw) = NoText THEN "empty"
    ELSE "ok"

\* The checks of the legacy endpoint, in the order the handler makes them.
Create_check(lexer, raw, expiry) ==
    IF lexer \notin list_languages THEN "invalid lexer"
    ELSE IF raw = NoText \/ Strip(raw) = NoText THEN "empty"
    ELSE IF expiry \notin DOMAIN expiries THEN "invalid expiry"
    ELSE "ok"

\* The single file of a legacy paste takes the paste's slug.
Create_file(paste, raw, lexer) == File(paste.slug, raw, lexer, NoText)

\* raw = self.get_body_argument("code", strip=False), with a mutant that
\* leaves the default strip=True in place.
Create_raw_stripped(code) == get_body_argument(code, TRUE)
Create_raw(code) == get_body_argument(code, FALSE)

Create_post(lexer, code, expiry) ==
    LET raw == Create_raw(code)
        check == Create_check(lexer, raw, expiry)
    IN  CASE check \in {"invalid lexer", "invalid expiry"} ->
               /\ last' = Raise("Create", NoSlug, "HTTPError(400)",
                                "Paste.post: a paste was submitted with an " \o check)
               /\ Keep
          [] check = "empty" ->
               /\ last' = [NoResponse EXCEPT !.op = "Create", !.status = 302,
                              !.redirect = "/+{lexer}", !.lexer = lexer]
               /\ Keep
          [] OTHER ->
               /\ Cardinality(pastes) < MaxPastes
               /\ \E slug \in FreshSlugs :
                    LET paste == Paste(slug, expiries[expiry], "deprecated-web")
                        file == Create_file(paste, raw, lexer)
                    IN  /\ Persist(paste, <<file>>, <<code>>)
                        /\ last' = [NoResponse EXCEPT !.op = "Create", !.status = 302,
                                       !.redirect = "/{slug}", !.slug = paste.slug,
                                       !.cookie = paste.removal]

\* ------------------------------------------------ CreateAction.post
\* A mutant of CreateAction_check: the lists are not compared in length.
CreateAction_check_no_length(expiry, lexers, raws, filenames) ==
    IF expiry \notin DOMAIN expiries THEN "Invalid expiry provided"
    ELSE IF lexers = << >> \/ raws = << >> \/ filenames = << >>
        THEN "'lexers', 'raws', and 'filenames' arguments must not be empty"
    ELSE IF \E i \in 1..Len(raws) : Strip(raws[i]) = NoText
        THEN "Empty pastes are not allowed"
    ELSE IF \E i \in 1..Len(lexers) : lexers[i] \notin list_languages
        THEN "Invalid lexer provided"
    ELSE "ok"

\* The validation of the multi-file endpoint, in the order the handler makes it.
CreateAction_check(expiry, lexers, raws, filenames) ==
    IF expiry \notin DOMAIN expiries THEN "Invalid expiry provided"
    ELSE IF lexers = << >> \/ raws = << >> \/ filenames = << >>
        THEN "'lexers', 'raws', and 'filenames' arguments must not be empty"
    ELSE IF \E i \in 1..Len(raws) : Strip(raws[i]) = NoText
        THEN "Empty pastes are not allowed"
    ELSE IF Len(raws) # Len(lexers) \/ Len(filenames) # Len(lexers)
        THEN "'lexers', 'raws', and 'filenames' arguments must be the same length"
    ELSE IF \E i \in 1..Len(lexers) : lexers[i] \notin list_languages
        THEN "Invalid lexer provided"
    ELSE "ok"

\* zip(lexers, raws, filenames) stops with the shortest list.
Min2(a, b) == IF a < b THEN a ELSE b
ZipLen(lexers, raws, filenames) == Min2(Len(lexers), Min2(Len(raws), Len(filenames)))

\* A mutant of CreateAction_files: the first file keeps the slug generated for it.
CreateAction_files_own(ids, lexers, raws, filenames) ==
    [i \in 1..ZipLen(lexers, raws, filenames) |->
        File(ids[i + 1], raws[i], lexers[i], filenames[i])]

\* Another mutant: the slug of the paste goes to the last file, files[-1].
CreateAction_files_last(ids, lexers, raws, filenames) ==
    [i \in 1..ZipLen(lexers, raws, filenames) |->
        File(IF i = ZipLen(lexers, raws, filenames) THEN ids[1] ELSE ids[i + 1],
             raws[i], lexers[i], filenames[i])]

\* paste.files after the loop over zip(lexers, raws, filenames) and after the
\* first file was given the slug of the paste. ids are the slugs the
\* SlugContext handed out: ids[1] for the paste, ids[i + 1] for file i.
CreateAction_files(ids, lexers, raws, filenames) ==
    [i \in 1..ZipLen(lexers, raws, filenames) |->
        File(IF i = 1 THEN ids[1] ELSE ids[i + 1], raws[i], lexers[i], filenames[i])]

\* total_size = sum(len(f.fmt) for f in paste.files)
total_size(fs) == SumSeq([i \in 1..Len(fs) |-> Len(fmt(fs[i].raw, fs[i].lexer))])

CreateAction_toolarge(fs) == total_size(fs) > paste_size

\* next(slug_context), n times: distinct slugs, none of them in the store.
SlugRuns(n) ==
    {ids \in [1..n -> FreshSlugs] : \A i, j \in 1..n : i # j => ids[i] # ids[j]}

\* raws = self.get_body_arguments("raw", strip=False), with a mutant that
\* leaves the default strip=True in place.
CreateAction_raws_stripped(posted) ==
    [i \in 1..Len(posted) |-> get_body_argument(posted[i], TRUE)]

CreateAction_raws(posted) ==
    [i \in 1..Len(posted) |-> get_body_argument(posted[i], FALSE)]

\* filenames = self.get_body_arguments("filename"): stripped, as is the default.
CreateAction_filenames(posted) ==
    [i \in 1..Len(posted) |-> get_body_argument(posted[i], TRUE)]

CreateAction_post(expiry, lexers, posted, names) ==
    LET raws == CreateAction_raws(posted)
        filenames == CreateAction_filenames(names)
        check == CreateAction_check(expiry, lexers, raws, filenames)
    IN  IF check # "ok"
        THEN /\ last' = Raise("CreateAction", NoSlug, "ValidationError", check)
             /\ Keep
        ELSE /\ Cardinality(pastes) < MaxPastes
             /\ \E ids \in SlugRuns(ZipLen(lexers, raws, filenames) + 1) :
                  LET paste == Paste(ids[1], expiries[expiry], "web")
                      fs == CreateAction_files(ids, lexers, raws, filenames)
                  IN  IF CreateAction_toolarge(fs)
                      THEN /\ last' = Raise("CreateAction", NoSlug, "ValidationError",
                                            "Sum of file sizes exceeds size limit")
                           /\ Keep
                      ELSE /\ Persist(paste, fs, posted)
                           /\ last' = [NoResponse EXCEPT !.op = "CreateAction",
                                          !.status = 302, !.redirect = "/{slug}",
                                          !.slug = paste.slug,
                                          !.cookie = paste.removal]

\* ------------------------------------- creation, request by request
\* Requests are handled side by side: each has its own session, sees what
\* was committed when it queries, and writes at its commit.

\* Create.post up to its commit: the arguments are checked, the slug is
\* drawn against the committed store and the paste is built in the session.
Create_build(w, lexer, code, expiry) ==
    LET raw == Create_raw(code)
        check == Create_check(lexer, raw, expiry)
    IN  /\ inflight[w].op = "none"
        /\ Keep
        /\ CASE check \in {"invalid lexer", "invalid expiry"} ->
                 /\ last' = Raise("Create", NoSlug, "HTTPError(400)",
                                  "Paste.post: a paste was submitted with an " \o check)
                 /\ UNCHANGED inflight
            [] check = "empty" ->
                 /\ last' = [NoResponse EXCEPT !.op = "Create", !.status = 302,
                                !.redirect = "/+{lexer}", !.lexer = lexer]
                 /\ UNCHANGED inflight
            [] OTHER ->
                 /\ Cardinality(pastes) + Cardinality(Creating) < MaxPastes
                 /\ \E slug \in FreshSlugs :
                      LET paste == Paste(slug, expiries[expiry], "deprecated-web")
                          file == Create_file(paste, raw, lexer)
                      IN  inflight' = [inflight EXCEPT
                              ![w] = Job("Create", NoSlug, paste, <<file>>, <<code>>)]
                 /\ UNCHANGED last

\* CreateAction.post up to its commit.
CreateAction_build(w, expiry, lexers, posted, names) ==
    LET raws == CreateAction_raws(posted)
        filenames == CreateAction_filenames(names)
        check == CreateAction_check(expiry, lexers, raws, filenames)
    IN  /\ inflight[w].op = "none"
        /\ Keep
        /\ IF check # "ok"
           THEN /\ last' = Raise("CreateAction", NoSlug, "ValidationError", check)
                /\ UNCHANGED inflight
           ELSE /\ Cardinality(pastes) + Cardinality(Creating) < MaxPastes
                /\ \E ids \in SlugRuns(ZipLen(lexers, raws, filenames) + 1) :
                     LET paste == Paste(ids[1], expiries[expiry], "web")
                         fs == CreateAction_files(ids, lexers, raws, filenames)
                     IN  IF CreateAction_toolarge(fs)
                         THEN /\ last' = Raise("CreateAction", NoSlug, "ValidationError",
                                               "Sum of file sizes exceeds size limit")
                              /\ UNCHANGED inflight
                         ELSE /\ inflight' = [inflight EXCEPT
                                    ![w] = Job("CreateAction", NoSlug, paste, fs, posted)]
                              /\ UNCHANGED last

\* The store's uniqueness constraints: the slug column of the Paste table and
\* the slug column of the File table.
IntegrityError(paste, fs) ==
    \/ \E p \in pastes : p.slug = paste.slug
    \/ \E f \in files : \E i \in 1..Len(fs) : fs[i].slug = f.slug

\* session.add(paste); session.commit() of a creation. A commit that breaks
\* a constraint raises, the session is rolled back, and no handler catches
\* the error: the cookie and the redirect are not reached.
session_commit(w) ==
    LET job == inflight[w]
    IN  /\ job.op \in {"Create", "CreateAction"}
        /\ inflight' = [inflight EXCEPT ![w] = Idle]
        /\ IF IntegrityError(job.paste, job.files)
           THEN /\ last' = Raise(job.op, NoSlug, "IntegrityError", "")
                /\ Keep
           ELSE /\ Persist(job.paste, job.files, job.raws)
                /\ last' = [NoResponse EXCEPT !.op = job.op, !.status = 302,
                               !.redirect = "/{slug}", !.slug = job.paste.slug,
                               !.cookie = job.paste.removal]

\* ------------------------------------------------- defensive.ratelimit
\* @defensive.ratelimit(area=...): the limiter is asked before the handler
\* body runs, and a denial is raised as RatelimitError in its place.
ratelimit(area, op, arg, body) ==
    IF area \in denied
    THEN /\ last' = Raise(op, arg, "RatelimitError", "")
         /\ Keep
    ELSE body

\* ------------------------------------------------------ read handlers
Found(op, arg, paste) ==
    [NoResponse EXCEPT !.op = op, !.arg = arg, !.status = 200, !.slug = paste.slug]

NotFound(op, arg) == Raise(op, arg, "HTTPError(404)", "")

\* The 404 of a handler that found the paste expired; it logs a warning.
Expired(op, arg, who) ==
    Raise(op, arg, "HTTPError(404)",
          who \o ": paste was expired, is your cronjob running?")

\* Repaste.get: the create form, prefilled with the paste.
Repaste_get(slug) ==
    IF PasteBySlug(slug) = {}
    THEN /\ last' = NotFound("Repaste", slug)
         /\ Keep
    ELSE \E paste \in PasteBySlug(slug) :
            /\ last' = [Found("Repaste", slug, paste) EXCEPT !.lexer = "text"]
            /\ Keep

\* Show.get: the paste page; can_delete compares the removal cookie.
Show_get(slug, cookie) ==
    IF PasteBySlug(slug) = {}
    THEN /\ last' = NotFound("Show", slug)
         /\ Keep
    ELSE \E paste \in PasteBySlug(slug) :
            IF IsExpired(paste)
            THEN /\ Drop(paste)
                 /\ last' = Expired("Show", slug, "Show.get")
            ELSE /\ last' = [Found("Show", slug, paste) EXCEPT
                                !.can_delete = (cookie = paste.removal)]
                 /\ Keep

\* RedirectShow.get: old-style /show/ paths redirect to the paste.
RedirectShow_get(slug) ==
    IF PasteBySlug(slug) = {}
    THEN /\ last' = NotFound("RedirectShow", slug)
         /\ Keep
    ELSE \E paste \in PasteBySlug(slug) :
            IF IsExpired(paste)
            THEN /\ Drop(paste)
                 /\ last' = Expired("RedirectShow", slug, "RedirectShow.get")
            ELSE /\ last' = [NoResponse EXCEPT !.op = "RedirectShow", !.arg = slug,
                                !.status = 302, !.redirect = "/{slug}",
                                !.slug = paste.slug]
                 /\ Keep

\* FileRaw.get: the file's content as text/plain.
FileRaw_body(file) == file.raw

FileRaw_get(file_id) ==
    IF FileBySlug(file_id) = {}
    THEN /\ last' = NotFound("FileRaw", file_id)
         /\ Keep
    ELSE \E file \in FileBySlug(file_id) :
            IF IsExpired(PasteOf(file))
            THEN /\ Drop(PasteOf(file))
                 /\ last' = Expired("FileRaw", file_id, "FileRaw.get")
            ELSE /\ last' = [NoResponse EXCEPT !.op = "FileRaw", !.arg = file_id,
                                !.status = 200, !.body = FileRaw_body(file)]
                 /\ Keep

\* FileHex.get: the file's content, hex-encoded.
FileHex_get(file_id) ==
    IF FileBySlug(file_id) = {}
    THEN /\ last' = NotFound("FileHex", file_id)
         /\ Keep
    ELSE \E file \in FileBySlug(file_id) :
            IF IsExpired(PasteOf(file))
            THEN /\ Drop(PasteOf(file))
                 /\ last' = Expired("FileHex", file_id, "FileRaw.get")
            ELSE /\ last' = [NoResponse EXCEPT !.op = "FileHex", !.arg = file_id,
                                !.status = 200, !.body = hexlify(file.raw)]
                 /\ Keep

\* The text of a slug, as it appears in a file name.
SlugText(slug) == <<(<<"1", "2", "3", "4", "5", "6", "7", "8", "9">>)[slug]>>

\* A mutant of download_name: the name carries the slug of the paste.
download_name_of_paste(file) ==
    IF file.filename # NoText
    THEN filename_clean(file.filename) \o <<"-">> \o SlugText(file.paste)
            \o <<".", "t", "x", "t">>
    ELSE SlugText(file.paste) \o <<".", "t", "x", "t">>

\* "{filename_clean(file.filename)}-{file.slug}.txt", or "{file.slug}.txt"
\* for a file without a name.
download_name(file) ==
    IF file.filename # NoText
    THEN filename_clean(file.filename) \o <<"-">> \o SlugText(file.slug)
            \o <<".", "t", "x", "t">>
    ELSE SlugText(file.slug) \o <<".", "t", "x", "t">>

\* A mutant of PasteDownload_entries: the files are zipped last to first.
PasteDownload_entries_reversed(paste) ==
    [i \in 1..Len(FilesOf(paste)) |->
        [name |-> download_name(FilesOf(paste)[Len(FilesOf(paste)) + 1 - i]),
         data |-> FilesOf(paste)[Len(FilesOf(paste)) + 1 - i].raw]]

\* PasteDownload.get: every file of the paste, zipped.
PasteDownload_entries(paste) ==
    [i \in 1..Len(FilesOf(paste)) |->
        [name |-> download_name(FilesOf(paste)[i]), data |-> FilesOf(paste)[i].raw]]

PasteDownload_get(paste_id) ==
    IF PasteBySlug(paste_id) = {}
    THEN /\ last' = NotFound("PasteDownload", paste_id)
         /\ Keep
    ELSE \E paste \in PasteBySlug(paste_id) :
            IF IsExpired(paste)
            THEN /\ Drop(paste)
                 /\ last' = Expired("PasteDownload", paste_id, "FileRaw.get")
            ELSE /\ last' = [Found("PasteDownload", paste_id, paste) EXCEPT
                                !.entries = PasteDownload_entries(paste),
                                !.filename = SlugText(paste.slug)
                                                \o <<".", "z", "i", "p">>]
                 /\ Keep

\* FileDownload.get: the file's content as an attachment.
FileDownload_get(file_id) ==
    IF FileBySlug(file_id) = {}
    THEN /\ last' = NotFound("FileDownload", file_id)
         /\ Keep
    ELSE \E file \in FileBySlug(file_id) :
            IF IsExpired(PasteOf(file))
            THEN /\ Drop(PasteOf(file))
                 /\ last' = Expired("FileDownload", file_id, "FileDownload.get")
            ELSE /\ last' = [NoResponse EXCEPT !.op = "FileDownload", !.arg = file_id,
                                !.status = 200, !.body = file.raw,
                                !.filename = download_name(file)]
                 /\ Keep

\* ------------------------------------------ lazy expiry, request by request
\* Show.get up to session.delete: a request that finds the paste expired
\* holds it in its session until the commit.
Show_lookup(w, slug) ==
    /\ inflight[w].op = "none"
    /\ Keep
    /\ IF PasteBySlug(slug) = {}
       THEN /\ last' = NotFound("Show", slug)
            /\ UNCHANGED inflight
       ELSE \E paste \in PasteBySlug(slug) :
               IF IsExpired(paste)
               THEN /\ inflight' = [inflight EXCEPT
                            ![w] = Job("Show", slug, paste, << >>, << >>)]
                    /\ UNCHANGED last
               ELSE /\ last' = Found("Show", slug, paste)
                    /\ UNCHANGED inflight

\* FileRaw.get up to session.delete.
FileRaw_lookup(w, file_id) ==
    /\ inflight[w].op = "none"
    /\ Keep
    /\ IF FileBySlug(file_id) = {}
       THEN /\ last' = NotFound("FileRaw", file_id)
            /\ UNCHANGED inflight
       ELSE \E file \in FileBySlug(file_id) :
               IF IsExpired(PasteOf(file))
               THEN /\ inflight' = [inflight EXCEPT
                            ![w] = Job("FileRaw", file_id, PasteOf(file), << >>, << >>)]
                    /\ UNCHANGED last
               ELSE /\ last' = [NoResponse EXCEPT !.op = "FileRaw", !.arg = file_id,
                                   !.status = 200, !.body = FileRaw_body(file)]
                    /\ UNCHANGED inflight

\* session.delete(paste); session.commit() of a read that found the paste
\* expired. When the row is still there it is deleted and the handler goes
\* on to its 404. When another request has deleted it in the meantime the
\* store either lets the commit pass or fails it; no handler catches the
\* error, so the log line and the 404 are not reached.
session_delete(w) ==
    LET job == inflight[w]
    IN  /\ job.op \in {"Show", "FileRaw"}
        /\ inflight' = [inflight EXCEPT ![w] = Idle]
        /\ IF job.paste \in pastes
           THEN /\ Drop(job.paste)
                /\ last' = Expired(job.op, job.arg, job.op \o ".get")
           ELSE /\ Keep
                /\ \/ last' = Expired(job.op, job.arg, job.op \o ".get")
                   \/ last' = Raise(job.op, job.arg, "OperationalError", "")

\* ------------------------------------------------------------ Remove.get
\* The response once the paste was deleted and the session closed.
Remove_done(removal) ==
    [NoResponse EXCEPT !.op = "Remove", !.arg = removal, !.status = 302,
                       !.redirect = "/"]

Remove_get(removal) ==
    IF PasteByRemoval(removal) = {}
    THEN /\ last' = Raise("Remove", removal, "HTTPError(404)",
                          "RemovePaste.get: someone visited with invalid id")
         /\ Keep
    ELSE \E paste \in PasteByRemoval(removal) :
            /\ Drop(paste)
            /\ last' = IF IsExpired(paste)
                       THEN Expired("Remove", removal, "Remove.get")
                       ELSE Remove_done(removal)

\* ----------------------------------------------------------- the clock
Tick ==
    /\ now < MaxTime
    /\ now' = now + 1
    /\ UNCHANGED <<pastes, files, last, req, submitted, gone, reassigned, denied,
                   inflight>>

\* ------------------------------------------------------ specification
NoRequest ==
    [kind |-> "none", expiry |-> "", lexer |-> "", raw |-> NoText,
     lexers |-> << >>, raws |-> << >>, filenames |-> << >>]

Init ==
    /\ pastes = {}
    /\ files = {}
    /\ now = 0
    /\ last = NoResponse
    /\ req = NoRequest
    /\ submitted = << >>
    /\ gone = {}
    /\ reassigned = {}
    /\ denied = {}
    /\ inflight = [w \in Workers |-> Idle]

\* The history variables are kept by SpecExpiry alone.
Quiet == UNCHANGED <<req, gone, reassigned, denied, inflight>>

\* The lifecycle of pastes: well-formed creations, every read, removal, time.
CreateLive ==
    \E lexer \in LiveLexers, raw \in LiveRaws, expiry \in LiveExpiries :
        Create_post(lexer, raw, expiry)

CreateActionLive ==
    \E expiry \in LiveExpiries, n \in 1..MaxFiles :
        \E lexers \in [1..n -> LiveLexers], raws \in [1..n -> LiveRaws],
           filenames \in [1..n -> LiveFilenames] :
            CreateAction_post(expiry, lexers, raws, filenames)

\* Each endpoint with the decorator its handler carries; RedirectShow.get
\* carries none.
Create == ratelimit("create", "Create", NoSlug, CreateLive) /\ Quiet
CreateAction == ratelimit("create", "CreateAction", NoSlug, CreateActionLive) /\ Quiet

Repaste ==
    /\ \E slug \in Slugs : ratelimit("read", "Repaste", slug, Repaste_get(slug))
    /\ Quiet

Show ==
    /\ \E slug \in Slugs, cookie \in Tokens \cup {NoSlug} :
            ratelimit("read", "Show", slug, Show_get(slug, cookie))
    /\ Quiet

RedirectShow == (\E slug \in Slugs : RedirectShow_get(slug)) /\ Quiet

FileRaw ==
    /\ \E file_id \in Slugs :
            ratelimit("read", "FileRaw", file_id, FileRaw_get(file_id))
    /\ Quiet

FileHex ==
    /\ \E file_id \in Slugs :
            ratelimit("read", "FileHex", file_id, FileHex_get(file_id))
    /\ Quiet

PasteDownload ==
    /\ \E paste_id \in Slugs :
            ratelimit("read", "PasteDownload", paste_id, PasteDownload_get(paste_id))
    /\ Quiet

FileDownload ==
    /\ \E file_id \in Slugs :
            ratelimit("read", "FileDownload", file_id, FileDownload_get(file_id))
    /\ Quiet

Remove ==
    /\ \E removal \in Slugs \cup Tokens :
            ratelimit("delete", "Remove", removal, Remove_get(removal))
    /\ Quiet

Next ==
    \/ Create
    \/ CreateAction
    \/ Repaste
    \/ Show
    \/ RedirectShow
    \/ FileRaw
    \/ FileHex
    \/ PasteDownload
    \/ FileDownload
    \/ Remove
    \/ Tick

Spec == Init /\ [][Next]_vars

\* The lifecycle under a rate limiter whose verdict for each area comes and
\* goes as its windows fill and drain.
Throttle ==
    /\ \E areas \in SUBSET Areas : denied' = areas
    /\ denied' # denied
    /\ UNCHANGED <<pastes, files, now, last, req, submitted, gone, reassigned,
                   inflight>>

NextLimit ==
    \/ Create
    \/ CreateAction
    \/ Repaste
    \/ Show
    \/ RedirectShow
    \/ FileRaw
    \/ FileHex
    \/ PasteDownload
    \/ FileDownload
    \/ Remove
    \/ Tick
    \/ Throttle

SpecLimit == Init /\ [][NextLimit]_vars

\* The lifecycle again, with the history of expired Shows: gone gains the
\* slug when Show answers 404 and logs that the paste was expired, reassigned
\* gains it when a later creation gives that slug to a new paste.
ShowSeen ==
    \E slug \in Slugs :
        /\ Show_get(slug, NoSlug)
        /\ gone' = IF last'.log # "" THEN gone \cup {slug} ELSE gone
        /\ reassigned' = IF last'.log # "" THEN reassigned \ {slug} ELSE reassigned
        /\ UNCHANGED <<req, denied, inflight>>

CreateSeen ==
    /\ CreateLive
    /\ reassigned' = reassigned \cup ({last'.slug} \cap gone)
    /\ UNCHANGED <<req, gone, denied, inflight>>

CreateActionSeen ==
    /\ CreateActionLive
    /\ reassigned' = reassigned \cup ({last'.slug} \cap gone)
    /\ UNCHANGED <<req, gone, denied, inflight>>

\* Between two Shows the store is changed by creations, by Remove, by the lazy
\* expiry of a file read and by the clock.
NextExpiry ==
    \/ CreateSeen
    \/ CreateActionSeen
    \/ ShowSeen
    \/ FileRaw
    \/ Remove
    \/ Tick

SpecExpiry == Init /\ [][NextExpiry]_vars

\* One creation request, drawn from every shape the form can post, against a
\* store that is empty or holds one earlier paste; then reads of the result.
CreateRequests ==
    {[NoRequest EXCEPT !.kind = "Create", !.expiry = e, !.lexer = l, !.raw = r] :
        e \in ExpiryInputs, l \in LexerInputs, r \in RawInputs \cup {NoText}}

CreateActionRequests ==
    {[NoRequest EXCEPT !.kind = "CreateAction", !.expiry = e, !.lexers = ls,
                       !.raws = rs, !.filenames = fs] :
        e \in ExpiryInputs, ls \in SeqsUpTo(LexerInputs, MaxFiles),
        rs \in SeqsUpTo(RawInputs, MaxFiles),
        fs \in SeqsUpTo(FilenameInputs, MaxFiles)}

InitCreate ==
    /\ pastes = {}
    /\ files = {}
    /\ now = 0
    /\ last = NoResponse
    /\ req \in CreateRequests \cup CreateActionRequests
    /\ submitted = << >>
    /\ gone = {}
    /\ reassigned = {}
    /\ denied = {}
    /\ inflight = [w \in Workers |-> Idle]

\* An earlier paste, made through the other endpoint before the request
\* under test arrives.
Earlier ==
    /\ last = NoResponse
    /\ IF req.kind = "Create"
       THEN CreateAction_post("1week", <<"text">>, << <<"a">> >>, <<NoText>>)
       ELSE Create_post("text", <<"a">>, "1week")
    /\ Quiet

SubmitCreate ==
    /\ req.kind = "Create"
    /\ Create_post(req.lexer, req.raw, req.expiry)
    /\ Quiet

SubmitCreateAction ==
    /\ req.kind = "CreateAction"
    /\ CreateAction_post(req.expiry, req.lexers, req.raws, req.filenames)
    /\ Quiet

NextCreate ==
    \/ Earlier
    \/ SubmitCreate
    \/ SubmitCreateAction
    \/ FileRaw

SpecCreate == InitCreate /\ [][NextCreate]_vars

\* Creations side by side: two workers, each taking a request from a short
\* list of good and bad ones, building its paste and committing it later.
RaceExpiries == {"1day", "bogus"}

RaceRequests ==
    {[NoRequest EXCEPT !.kind = "Create", !.expiry = e, !.lexer = "text",
                       !.raw = <<"a">>] : e \in RaceExpiries}
    \cup {[NoRequest EXCEPT !.kind = "CreateAction", !.expiry = e,
                            !.lexers = [i \in 1..n |-> "text"],
                            !.raws = [i \in 1..n |-> <<"a">>],
                            !.filenames = [i \in 1..n |-> NoText]] :
            e \in RaceExpiries, n \in 1..MaxFiles}
    \cup {[NoRequest EXCEPT !.kind = "CreateAction", !.expiry = "1day",
                            !.lexers = <<"python">>,
                            !.raws = << <<" ", "a", " ">> >>,
                            !.filenames = <<NoText>>]}

Calm == UNCHANGED <<req, gone, reassigned, denied>>

BeginCreate ==
    /\ \E w \in Workers, r \in RaceRequests :
            /\ r.kind = "Create"
            /\ Create_build(w, r.lexer, r.raw, r.expiry)
    /\ Calm

BeginCreateAction ==
    /\ \E w \in Workers, r \in RaceRequests :
            /\ r.kind = "CreateAction"
            /\ CreateAction_build(w, r.expiry, r.lexers, r.raws, r.filenames)
    /\ Calm

Commit == (\E w \in Workers : session_commit(w)) /\ Calm

NextRace ==
    \/ BeginCreate
    \/ BeginCreateAction
    \/ Commit

SpecRace == Init /\ [][NextRace]_vars

\* Lazy expiry side by side: pastes are created and expire, and two workers
\* read them, each deleting the expired paste it found at its own commit.
ShowLookup == (\E w \in Workers, slug \in Slugs : Show_lookup(w, slug)) /\ Calm
FileRawLookup == (\E w \in Workers, file_id \in Slugs : FileRaw_lookup(w, file_id)) /\ Calm
Sweep == (\E w \in Workers : session_delete(w)) /\ Calm

NextSweep ==
    \/ Create
    \/ CreateAction
    \/ ShowLookup
    \/ FileRawLookup
    \/ Sweep
    \/ Tick

SpecSweep == Init /\ [][NextSweep]_vars

\* One well-formed multi-file request, with file names, against a store that
\* is empty or holds one earlier paste; then downloads of what is stored.
DownloadRequests ==
    {[NoRequest EXCEPT !.kind = "CreateAction", !.expiry = e, !.lexers = ls,
                       !.raws = rs, !.filenames = fs] :
        e \in LiveExpiries, ls \in SeqsUpTo(list_languages, MaxFiles) \ {<< >>},
        rs \in SeqsUpTo(DownloadRaws, MaxFiles),
        fs \in SeqsUpTo(DownloadNames, MaxFiles)}

InitFiles ==
    /\ pastes = {}
    /\ files = {}
    /\ now = 0
    /\ last = NoResponse
    /\ req \in {r \in DownloadRequests :
                    Len(r.raws) = Len(r.lexers) /\ Len(r.filenames) = Len(r.lexers)}
    /\ submitted = << >>
    /\ gone = {}
    /\ reassigned = {}
    /\ denied = {}
    /\ inflight = [w \in Workers |-> Idle]

NextFiles ==
    \/ Earlier
    \/ SubmitCreateAction
    \/ FileDownload
    \/ PasteDownload

SpecFiles == InitFiles /\ [][NextFiles]_vars

\* ================================================================ claims
PasteReads == {"Show", "RedirectShow", "PasteDownload", "Repaste"}
FileReads == {"FileRaw", "FileHex", "FileDownload"}

\* The pastes a read of `arg` by handler `op` looks at, in the current store.
Looked(op, arg) ==
    IF op \in PasteReads
    THEN {p \in pastes : p.slug = arg}
    ELSE {p \in pastes : \E f \in files : f.slug = arg /\ f.paste = p.slug}

\* A step taken by handler `op`: every handler leaves its name in last; the
\* clock and the rate limiter's windows leave last as it is.
StepOf(op) == last'.op = op /\ now' = now /\ denied' = denied

\* C1: in every reachable store each persisted paste has a first file and
\* that file carries the paste's slug, whichever endpoint created the paste
\* and however many files it has.
C1_FirstFileHasPasteSlug ==
    \A p \in pastes :
        \E f \in files : f.paste = p.slug /\ f.pos = 1 /\ f.slug = p.slug

C1_Witness ==
    /\ last.op = "CreateAction"
    /\ last.status = 302
    /\ \E p \in pastes :
        /\ p.slug = last.slug
        /\ Cardinality({f \in files : f.paste = p.slug}) = 2
        /\ \E f \in files : f.paste = p.slug /\ f.pos = 2 /\ f.slug # p.slug

\* C2: a Show, RedirectShow, PasteDownload, FileRaw, FileHex or FileDownload
\* that finds a record whose paste's exp_date has passed answers 404, and
\* after it neither that paste nor any of its files is in the store.
C2_LazyExpiry ==
    [][\A op \in {"Show", "RedirectShow", "PasteDownload"} \cup FileReads :
        \A p \in pastes :
            (StepOf(op) /\ p \in Looked(op, last'.arg) /\ p.exp_date < now)
                => /\ last'.status = 404
                   /\ p \notin pastes'
                   /\ \A f \in files' : f.paste # p.slug]_vars

C2_Witness ==
    /\ last.op = "FileRaw"
    /\ last.status = 404
    /\ last.log = "FileRaw.get: paste was expired, is your cronjob running?"
    /\ last.arg \notin UsedSlugs

\* C3: no read handler, Repaste included, answers with success for a paste
\* whose exp_date has passed.
C3_ExpiredNeverSurfaced ==
    [][\A op \in PasteReads \cup FileReads :
        \A p \in pastes :
            (StepOf(op) /\ p \in Looked(op, last'.arg) /\ p.exp_date < now)
                => last'.status \notin {200, 302}]_vars

C3_Witness ==
    /\ last.op = "Repaste"
    /\ last.status = 200
    /\ \E p \in pastes : p.slug = last.arg /\ p.exp_date < now

\* C4 as claimed: once Show has answered 404 for a slug because its paste was
\* expired, every later Show of that slug answers 404, whatever happened in
\* between, creations included.
C4_GoneForEver ==
    [][(StepOf("Show") /\ last'.arg \in gone) => last'.status = 404]_vars

\* C4 as amended: once Show has answered 404 for a slug because its paste was
\* expired, every later Show of that slug answers 404 for as long as no
\* creation has given that slug to a new paste.
C4_GoneUntilReassigned ==
    [][(StepOf("Show") /\ last'.arg \in gone \ reassigned)
            => last'.status = 404]_vars

C4_Witness ==
    /\ last.op = "Show"
    /\ last.status = 404
    /\ last.log = ""
    /\ last.arg \in gone \ reassigned
    /\ pastes # {}

\* C5: Remove(t) deletes a paste only if t is that paste's removal token, it
\* then deletes that one paste and exactly its files, and for a t that is no
\* stored removal token (a slug, say) it answers 404 and leaves the store as
\* it was.
C5_RemovalCapability ==
    [][StepOf("Remove") =>
        /\ \A p \in pastes \ pastes' : p.removal = last'.arg
        /\ pastes' \subseteq pastes
        /\ Cardinality(pastes \ pastes') <= 1
        /\ files' = {f \in files : \E p \in pastes' : p.slug = f.paste}
        /\ (\E p \in pastes : p.removal = last'.arg) => pastes' # pastes
        /\ (\A p \in pastes : p.removal # last'.arg)
                => last'.status = 404 /\ pastes' = pastes /\ files' = files]_vars

C5_Witness ==
    /\ last.op = "Remove"
    /\ last.status = 404
    /\ last.arg \in {p.slug : p \in pastes}
    /\ Cardinality(pastes) = 2

\* C6 as claimed: whatever the outcome, the response of Remove is the
\* redirect to "/".
C6_AlwaysRedirects ==
    last.op = "Remove" => last.status = 302 /\ last.redirect = "/"

\* C6 as amended: Remove redirects to "/" exactly when the token is that of
\* a paste whose exp_date has not passed; for the token of an expired paste
\* and for a token of no paste the response is the 404 error page.
C6_RedirectsOnlyOnRemoval ==
    [][StepOf("Remove") =>
        IF \E p \in pastes : p.removal = last'.arg /\ ~(p.exp_date < now)
        THEN last'.status = 302 /\ last'.redirect = "/" /\ last'.err = "none"
        ELSE last'.status = 404 /\ last'.redirect = ""
                /\ last'.err = "HTTPError(404)"]_vars

C6_Witness ==
    /\ last.op = "Remove"
    /\ last.status = 404
    /\ last.log = "Remove.get: paste was expired, is your cronjob running?"

\* ------------------------------------- the request under test, from outside
Blank(text) == \A i \in 1..Len(text) : text[i] = " "

BadExpiry == req.expiry \notin {"1day", "1week"}
BadLexer == req.lexer \notin {"text", "python"}
SomeListEmpty == req.lexers = << >> \/ req.raws = << >> \/ req.filenames = << >>
LengthsDiffer ==
    Len(req.lexers) # Len(req.raws) \/ Len(req.lexers) # Len(req.filenames)
SomeRawBlank == \E i \in 1..Len(req.raws) : Blank(req.raws[i])
SomeLexerUnknown == \E i \in 1..Len(req.lexers) : req.lexers[i] \notin {"text", "python"}

\* The highlighted size of a content: the text lexer adds nothing, any other
\* lexer doubles it.
Highlighted(raw, lexer) == IF lexer = "text" THEN Len(raw) ELSE 2 * Len(raw)

WellFormed ==
    IF req.kind = "Create"
    THEN ~BadLexer /\ ~BadExpiry /\ ~Blank(req.raw)
    ELSE ~BadExpiry /\ ~SomeListEmpty /\ ~LengthsDiffer /\ ~SomeRawBlank
            /\ ~SomeLexerUnknown

RequestedSize ==
    IF req.kind = "Create"
    THEN Highlighted(req.raw, req.lexer)
    ELSE SumSeq([i \in 1..Len(req.lexers) |-> Highlighted(req.raws[i], req.lexers[i])])

\* A step that answers the request under test (the earlier paste is made
\* through the other endpoint).
Answered == req.kind # "none" /\ StepOf(req.kind)

\* C7: a FileRaw answered with success carries exactly the content that was
\* submitted for that file, whitespace included; for a multi-file paste each
\* file returns the content submitted at its own position.
C7_RoundTrip ==
    (last.op = "FileRaw" /\ last.status = 200) => last.body = submitted[last.arg]

C7_Witness ==
    /\ last.op = "FileRaw"
    /\ last.status = 200
    /\ last.body = <<" ", "a", " ">>
    /\ req.kind = "CreateAction"
    /\ Len(req.raws) = 2
    /\ req.raws[2] = <<" ", "a", " ">>
    /\ \E f \in files : f.slug = last.arg /\ f.pos = 2

\* C8: every creation request whose summed highlighted size exceeds
\* paste_size, through either endpoint, is rejected with ValidationError and
\* changes nothing in the store; one whose sum equals paste_size is accepted.
C8_SizeBoundary ==
    [][(Answered /\ WellFormed) =>
        /\ RequestedSize > paste_size
            => /\ last'.err = "ValidationError"
               /\ pastes' = pastes
               /\ files' = files
        /\ RequestedSize = paste_size
            => /\ last'.status = 302
               /\ pastes' # pastes]_vars

C8_Witness ==
    /\ req.kind = "Create"
    /\ WellFormed
    /\ RequestedSize > paste_size
    /\ last.op = "Create"
    /\ last.status = 302
    /\ \E f \in files : f.slug = last.slug /\ f.raw = req.raw

\* C9: a CreateAction request with an unconfigured expiry, an empty list,
\* lists of differing lengths, a blank content or an unknown lexer is
\* rejected with ValidationError, persists nothing and sets no cookie.
C9_CreateActionValidation ==
    [][(Answered /\ req.kind = "CreateAction"
            /\ (BadExpiry \/ SomeListEmpty \/ LengthsDiffer \/ SomeRawBlank
                    \/ SomeLexerUnknown))
        => /\ last'.err = "ValidationError"
           /\ last'.status = 400
           /\ last'.cookie = NoSlug
           /\ pastes' = pastes
           /\ files' = files]_vars

C9_Witness ==
    /\ req.kind = "CreateAction"
    /\ LengthsDiffer
    /\ ~BadExpiry /\ ~SomeListEmpty /\ ~SomeRawBlank /\ ~SomeLexerUnknown
    /\ last.op = "CreateAction"
    /\ last.err = "ValidationError"
    /\ pastes # {}

\* C10 as claimed: for a legacy Create an unknown lexer or an unconfigured
\* expiry gives a 400, blank code gives the redirect to the form of that
\* lexer, and nothing is persisted, in every combination of the defects.
C10_EveryCombination ==
    [][(Answered /\ req.kind = "Create") =>
        /\ (BadLexer \/ BadExpiry) => last'.status = 400
        /\ Blank(req.raw)
            => /\ last'.status = 302
               /\ last'.redirect = "/+{lexer}"
               /\ last'.lexer = req.lexer
        /\ (BadLexer \/ BadExpiry \/ Blank(req.raw))
            => pastes' = pastes /\ files' = files]_vars

\* C10 as amended: an unknown lexer gives a 400 whatever else is wrong; with
\* a known lexer, blank code gives the redirect to the form of that lexer
\* even when the expiry is not configured; with a known lexer and code that
\* is not blank, an unconfigured expiry gives a 400; nothing is persisted
\* and no cookie is set in any of these cases.
C10_ByPrecedence ==
    [][(Answered /\ req.kind = "Create") =>
        /\ BadLexer => last'.status = 400 /\ last'.err = "HTTPError(400)"
        /\ (~BadLexer /\ Blank(req.raw))
            => /\ last'.status = 302
               /\ last'.redirect = "/+{lexer}"
               /\ last'.lexer = req.lexer
        /\ (~BadLexer /\ ~Blank(req.raw) /\ BadExpiry)
            => last'.status = 400 /\ last'.err = "HTTPError(400)"
        /\ (BadLexer \/ BadExpiry \/ Blank(req.raw))
            => pastes' = pastes /\ files' = files /\ last'.cookie = NoSlug]_vars

C10_Witness ==
    /\ req.kind = "Create"
    /\ ~BadLexer /\ Blank(req.raw) /\ BadExpiry
    /\ last.op = "Create"
    /\ last.status = 302
    /\ last.redirect = "/+{lexer}"
    /\ pastes # {}

\* The name a download of the stored file f is to suggest: the sanitized
\* file name and the file's own slug, or the slug alone.
Suggested(f) ==
    IF f.filename = << >>
    THEN SlugText(f.slug) \o <<".", "t", "x", "t">>
    ELSE filename_clean(f.filename) \o <<"-">> \o SlugText(f.slug)
            \o <<".", "t", "x", "t">>

\* C11: a FileDownload answered with success suggests
\* "{sanitized filename}-{file slug}.txt" for a file that has a filename and
\* "{file slug}.txt" for one that has none, the slug being the file's own;
\* the slug of a second or later file is not the slug of its paste; and
\* PasteDownload names the zip entry of each file of the paste by that rule.
C11_DownloadFilename ==
    [][/\ (StepOf("FileDownload") /\ last'.status = 200)
            => \E f \in files :
                /\ f.slug = last'.arg
                /\ last'.filename = Suggested(f)
                /\ f.pos >= 2 => f.slug # f.paste
       /\ (StepOf("PasteDownload") /\ last'.status = 200)
            => /\ Len(last'.entries) = Cardinality({f \in files : f.paste = last'.arg})
               /\ \A f \in files :
                    f.paste = last'.arg
                        => last'.entries[f.pos].name = Suggested(f)]_vars

C11_Witness ==
    /\ last.op = "FileDownload"
    /\ last.status = 200
    /\ req.filenames = << << >>, <<" ", "x", "/">> >>
    /\ \E f \in files :
        /\ f.slug = last.arg
        /\ f.pos = 2
        /\ f.slug # f.paste
        /\ last.filename = <<"x", "-">> \o SlugText(f.slug) \o <<".", "t", "x", "t">>

\* The area each endpoint is to declare to the rate limiter.
AreaOf(op) ==
    CASE op \in {"Create", "CreateAction"} -> "create"
      [] op = "Remove" -> "delete"
      [] OTHER -> "read"

\* C12: a request to any of Create, CreateAction, Repaste, Show,
\* RedirectShow, Raw, Hex, Download, PasteDownload and Remove that arrives
\* while the limiter denies the endpoint's area is answered with the
\* rate-limit error and neither deletes nor creates anything.
C12_EveryEndpointGated ==
    [][\A op \in {"Create", "CreateAction", "Remove"} \cup PasteReads \cup FileReads :
        (StepOf(op) /\ AreaOf(op) \in denied)
            => /\ last'.err = "RatelimitError"
               /\ last'.status = 429
               /\ pastes' = pastes
               /\ files' = files]_vars

C12_Witness ==
    /\ "read" \in denied
    /\ last.op = "RedirectShow"
    /\ last.status = 404
    /\ last.log = "RedirectShow.get: paste was expired, is your cronjob running?"
    /\ last.arg \notin UsedSlugs

\* The step in which worker w commits the creation it has built.
Commits(w) ==
    /\ inflight[w].op \in {"Create", "CreateAction"}
    /\ inflight'[w].op = "none"

\* The slugs of the job of w that the store already holds in the same table.
Collides(w) ==
    \/ \E p \in pastes : p.slug = inflight[w].paste.slug
    \/ \E f \in files :
            \E i \in 1..Len(inflight[w].files) : inflight[w].files[i].slug = f.slug

\* C13: a creation whose commit meets a slug that a concurrent creation has
\* committed since its pre-check is retried with fresh slugs, so that, as
\* long as fresh slugs are left for it, the request ends in the redirect to a
\* new paste and not in a server error.
C13_CollisionRetried ==
    [][\A w \in Workers :
        (Commits(w) /\ Collides(w)
            /\ Cardinality(Slugs \ ({p.slug : p \in pastes} \cup {f.slug : f \in files}))
                    >= Len(inflight[w].files) + 1)
            => /\ last'.status = 302
               /\ \E p \in pastes' \ pastes : p.slug = last'.slug]_vars

C13_Witness ==
    /\ last.op = "CreateAction"
    /\ last.err = "IntegrityError"
    /\ last.status = 500
    /\ Cardinality(pastes) = 1
    /\ Cardinality(Slugs \ ({p.slug : p \in pastes} \cup {f.slug : f \in files})) >= 2

\* C14: whatever the interleaving of concurrent creations, no two pastes of
\* the store share a slug, no two files share a slug, and a file has the slug
\* of a paste only if it is the first file of that paste.
C14_SlugsUnique ==
    /\ \A p, q \in pastes : p.slug = q.slug => p = q
    /\ \A f, g \in files : f.slug = g.slug => f = g
    /\ \A f \in files :
        \A p \in pastes : f.slug = p.slug => f.paste = p.slug /\ f.pos = 1

C14_Witness ==
    /\ Cardinality(pastes) = 1
    /\ last.status = 302
    /\ \E f \in files : f.pos = 2
    /\ \E w \in Workers :
        /\ inflight[w].op = "none"
        /\ \E v \in Workers \ {w} :
            /\ inflight[v].op = "CreateAction"
            /\ \E f \in files : f.pos = 2 /\ f.slug = inflight[v].paste.slug

\* C16: each paste of the store has at least one file, and a creation that
\* ends in an error, be it raised by the validation, by the size limit or by
\* the commit, leaves the store as it was.
C16_AllOrNothing ==
    [][/\ \A p \in pastes' : \E f \in files' : f.paste = p.slug
       /\ \A op \in {"Create", "CreateAction"} :
            (last'.op = op /\ last'.err # "none" /\ last' # last)
                => pastes' = pastes /\ files' = files
       /\ \A w \in Workers :
            (Commits(w) /\ last'.err # "none") => pastes' = pastes /\ files' = files
       /\ \A p \in pastes' \ pastes :
            /\ last'.status = 302
            /\ last'.slug = p.slug
            /\ Cardinality(pastes' \ pastes) = 1
            /\ \A q \in pastes : \A f \in files :
                    f.paste = q.slug => f \in files']_vars

C16_Witness ==
    /\ last.op = "CreateAction"
    /\ last.err = "IntegrityError"
    /\ pastes # {}
    /\ \A p \in pastes : p.src = "deprecated-web"
    /\ Cardinality(files) = 1

\* C15: a Show or a FileRaw that has found its paste expired answers
\* NotFound (404) when it comes to delete it, also when the deletion fails
\* because another request has deleted the same paste since the lookup.
C15_BestEffortCleanup ==
    [][\A w \in Workers :
        (inflight[w].op \in {"Show", "FileRaw"} /\ inflight'[w].op = "none")
            => /\ last'.op = inflight[w].op
               /\ last'.status = 404
               /\ last'.err = "HTTPError(404)"]_vars

C15_Witness ==
    /\ last.op = "FileRaw"
    /\ last.status = 500
    /\ last.err = "OperationalError"
    /\ last.arg \notin {f.slug : f \in files}

\* C17: in every store each file belongs to exactly one paste, which is in
\* the store, and a step that deletes a paste, through Remove or through the
\* lazy expiry of any read handler, leaves none of that paste's files.
C17_NoOrphans ==
    [][/\ \A f \in files' : Cardinality({p \in pastes' : p.slug = f.paste}) = 1
       /\ \A p \in pastes \ pastes' : \A f \in files' : f.paste # p.slug
       /\ \A f \in files \ files' : \E p \in pastes \ pastes' : f.paste = p.slug]_vars

C17_Witness ==
    /\ last.op = "FileDownload"
    /\ last.status = 404
    /\ last.log = "FileDownload.get: paste was expired, is your cronjob running?"
    /\ last.arg \notin UsedSlugs
    /\ pastes # {}

\* C18: a paste enters the store with an exp_date strictly later than the
\* time of its creation, and no step (a read, another creation, a Remove
\* that fails) changes the exp_date or the removal token of a paste that
\* stays in the store.
C18_ExpiryFixed ==
    [][/\ \A p \in pastes' :
            (\A q \in pastes : q.slug # p.slug) => p.exp_date > now
       /\ \A p \in pastes : \A q \in pastes' :
            q.slug = p.slug => q.exp_date = p.exp_date /\ q.removal = p.removal]_vars

C18_Witness ==
    /\ last.op = "Remove"
    /\ last.status = 404
    /\ last.log = "RemovePaste.get: someone visited with invalid id"
    /\ now = 1
    /\ Cardinality(pastes) = 2
    /\ \E p \in pastes : p.exp_date = 1 /\ p.removal = removal_token(p.slug)

\* C19: a CreateAction with files f1..fN persists a paste whose i-th file
\* has the lexer, the content and the file name posted at position i of the
\* three lists, and PasteDownload of that paste emits one zip entry per file,
\* the i-th entry holding the content posted at position i.
C19_OrderPreserved ==
    [][/\ (Answered /\ last'.status = 302)
            => /\ Cardinality({f \in files' : f.paste = last'.slug}) = Len(req.lexers)
               /\ \A i \in 1..Len(req.lexers) :
                    \E f \in files' :
                        /\ f.paste = last'.slug
                        /\ f.pos = i
                        /\ f.lexer = req.lexers[i]
                        /\ f.raw = req.raws[i]
                        /\ f.filename = Strip(req.filenames[i])
       /\ (StepOf("PasteDownload") /\ last'.status = 200
                /\ \E p \in pastes : p.slug = last'.arg /\ p.src = "web")
            => /\ Len(last'.entries) = Len(req.raws)
               /\ \A i \in 1..Len(req.raws) :
                    /\ last'.entries[i].data = req.raws[i]
                    /\ \E f \in files :
                        /\ f.paste = last'.arg
                        /\ f.pos = i
                        /\ last'.entries[i].name = Suggested(f)]_vars

C19_Witness ==
    /\ last.op = "PasteDownload"
    /\ last.status = 200
    /\ req.raws = << <<" ", "a", " ">>, <<"a">> >>
    /\ req.lexers = <<"text", "text">>
    /\ req.filenames = << <<" ", "x", "/">>, << >> >>
    /\ Len(last.entries) = 2
    /\ last.entries[1].data = <<" ", "a", " ">>
    /\ last.entries[2].data = <<"a">>

\* C20: a Remove with the removal token of a paste whose exp_date has passed
\* is answered as NotFound (404, no redirect), and after it neither that
\* paste nor any of its files is in the store.
C20_ExpiredRemoveNotFound ==
    [][\A p \in pastes :
        (StepOf("Remove") /\ p.removal = last'.arg /\ p.exp_date < now)
            => /\ last'.status = 404
               /\ last'.err = "HTTPError(404)"
               /\ last'.redirect = ""
               /\ p \notin pastes'
               /\ \A f \in files' : f.paste # p.slug]_vars

C20_Witness ==
    /\ last.op = "Remove"
    /\ last.status = 404
    /\ last.log = "Remove.get: paste was expired, is your cronjob running?"
    /\ \A p \in pastes : p.removal # last.arg
    /\ \A f \in files : removal_token(f.paste) # last.arg
    /\ pastes # {}

\* C21: a Show, RedirectShow, Repaste, Raw, Hex, Download or PasteDownload
\* whose target is not expired, or whose slug matches nothing, leaves the
\* store as it was; and a read that does expire a paste leaves every other
\* paste with all its files, and adds nothing.
C21_ReadsKeepLiveData ==
    [][\A op \in PasteReads \cup FileReads :
        StepOf(op) =>
            /\ (\A p \in Looked(op, last'.arg) : ~(p.exp_date < now))
                    => pastes' = pastes /\ files' = files
            /\ \A p \in pastes \ Looked(op, last'.arg) :
                    /\ p \in pastes'
                    /\ \A f \in files : f.paste = p.slug => f \in files'
            /\ pastes' \subseteq pastes
            /\ files' \subseteq files]_vars

C21_Witness ==
    /\ last.op = "FileHex"
    /\ last.status = 404
    /\ last.log # ""
    /\ last.arg \notin UsedSlugs
    /\ \E p \in pastes :
        /\ p.exp_date < now
        /\ Cardinality({f \in files : f.paste = p.slug}) = 2

====
